---- MODULE Spec2Model ----
(***************************************************************************)
(* HealthyBites: the Product and Ingredient repositories (mongoose models) *)
(* and the /api/products routes.                                           *)
(*                                                                         *)
(* A JavaScript object with optional fields is a record whose DOMAIN holds *)
(* the fields that are present: `x !== undefined` is "x" \in DOMAIN r.     *)
(* A nullable value is a sequence: << >> is null, <<v>> is the value v.    *)
(* Document ids are strings; "" is the one falsy id.                       *)
(***************************************************************************)
EXTENDS Integers, Sequences, FiniteSets, Bags, TLC

VARIABLES
    products,     \* the Product collection: a set of product documents
    ingredients,  \* the Ingredient collection: a set of ingredient documents
    nextPid,      \* number of product documents constructed so far
    nextIid,      \* number of ingredient documents constructed so far
    nextSid,      \* number of size sub-documents constructed so far
    adds,         \* Product.add calls suspended at `await newProduct.save()`
    pushes,       \* Ingredient.push calls suspended at one of their awaits
    last          \* the latest call of a repository operation and its outcome

vars == <<products, ingredients, nextPid, nextIid, nextSid, adds, pushes, last>>

----------------------------------------------------------------------------
(* Bounds of the model *)

MaxProducts == 2      \* product documents ever constructed
MaxIngredients == 2   \* ingredient documents ever constructed
MaxSizes == 2         \* size sub-documents ever constructed
MaxPushes == 2        \* Ingredient.push calls in flight at once

(* Value domains of the inputs *)

Brands == {"Acme", "Purina"}
Flavors == {"beef", "fish"}
SpeciesSet == {"cat", "dog"}
LifeStages == {"adult", "young", "all"}
FoodTypes == {"dry", "wet"}
Names == {"Chicken", "Rice"}

PidNames == <<"p1", "p2", "p3", "p4", "p5", "p6">>
IidNames == <<"i1", "i2", "i3", "i4", "i5", "i6">>
SidNames == <<"s1", "s2", "s3", "s4", "s5", "s6">>

KeyFields == {"brand", "flavor", "species", "lifeStage", "foodType"}

Keys == [brand : Brands, flavor : Flavors, species : SpeciesSet,
         lifeStage : LifeStages, foodType : FoodTypes]

----------------------------------------------------------------------------
(* Generic helpers *)

\* The restriction of record r to the fields in S.
Restrict(r, S) == [f \in (DOMAIN r) \cap S |-> r[f]]

\* Object.assign(target, update): the fields of update overwrite target's.
ObjectAssign(target, update) ==
    [f \in (DOMAIN target) \cup (DOMAIN update) |->
        IF f \in DOMAIN update THEN update[f] ELSE target[f]]

\* All records whose fields are among F, field f drawn from dom[f].
RECURSIVE PartialsOver(_, _)
PartialsOver(dom, F) ==
    IF F = {} THEN {[f \in {} |-> << >>]}
    ELSE LET f == CHOOSE x \in F : TRUE
             rest == PartialsOver(dom, F \ {f})
         IN  rest \cup {ObjectAssign(r, [g \in {f} |-> v]) : r \in rest, v \in dom[f]}

PartialRecords(dom) == PartialsOver(dom, DOMAIN dom)

Range(s) == {s[i] : i \in DOMAIN s}

----------------------------------------------------------------------------
(* The document store (mongoose / MongoDB) *)

\* A query {field: value, field: {$in: [...]}} maps each queried field to the
\* set of values it admits; a document matches when every queried field does.
Matches(doc, query) == \A f \in DOMAIN query : doc[f] \in query[f]

\* Model.findById(id): the documents of coll with that id (none or one).
FindById(coll, id) == {d \in coll : d.id = id}

\* Model.findByIdAndUpdate(id, update, {new: true}): $set of update's fields.
FindByIdAndUpdate(coll, id, update) ==
    {IF d.id = id THEN ObjectAssign(d, update) ELSE d : d \in coll}

\* Model.findByIdAndDelete(id).
FindByIdAndDelete(coll, id) == {d \in coll : d.id # id}

\* JavaScript truthiness of a string (ids, packaging, unit) and of a number.
TruthyString(r, f) == f \in DOMAIN r /\ r[f] # ""
TruthyNumber(r, f) == f \in DOMAIN r /\ r[f] # 0

----------------------------------------------------------------------------
(* Ingredient.push and Ingredient.pushMany *)

NoCalls == EmptyBag

\* `x ?? null` for an optional argument x of the call t.
OrNull(t, f) == IF f \in DOMAIN t THEN t[f] ELSE << >>

\* HasRating looking at the first rating only.
HasRatingFirstOnly(doc, species) ==
    doc.ratings # << >> /\ doc.ratings[1].species = species

HasRating(doc, species) == \E i \in DOMAIN doc.ratings : doc.ratings[i].species = species

\* ratings.find(r => r.species === species): the index of the first match.
FirstRating(ratings, species) ==
    CHOOSE i \in DOMAIN ratings :
        /\ ratings[i].species = species
        /\ \A j \in DOMAIN ratings : ratings[j].species = species => i <= j

\* PushUpdate taking `?? null` for an argument that was not given.
PushUpdateOrNull(t) ==
    [healthRating |-> OrNull(t, "healthRating"), notes |-> OrNull(t, "notes")]

\* The arguments of a push call that are not undefined (lines 284-287).
PushUpdate(t) == Restrict(t, {"healthRating", "notes"})

\* The rating a push creates (lines 272-276 and 294-298).
PushRating(t) ==
    [species |-> t.species, healthRating |-> OrNull(t, "healthRating"),
     notes |-> OrNull(t, "notes")]

\* A call of Ingredient.push about to run `IngredientModel.findOne({ name })`.
PushCall(name, species, given) ==
    ObjectAssign([name |-> name, species |-> species, pc |-> "find",
                  found |-> {}, stale |-> FALSE], given)

\* The outcomes of IngredientModel.findOne({ name }): no document, or any one
\* document of that name (the store fixes no order among equal names).
FindOneByName(coll, name) ==
    IF \E d \in coll : d.name = name
    THEN {{d} : d \in {e \in coll : e.name = name}}
    ELSE {{}}

\* Whether the write of the suspended call t is accepted by the store.
\* A new document is always inserted.  A loaded document is written by _id;
\* the whole-array $set after markModified('ratings') also requires the
\* version (__v) it was loaded with, the $push of a new rating does not.
PushSaveAccepted(coll, t) ==
    \/ t.found = {}
    \/ \E d \in t.found :
          /\ FindById(coll, d.id) # {}
          /\ HasRating(d, t.species) => ~t.stale

\* The Ingredient collection after the write of the suspended call t; newId is
\* the _id of the document built at line 270.
PushSave(coll, t, newId) ==
    IF t.found = {}
    THEN coll \cup {[id |-> newId, name |-> t.name, ratings |-> <<PushRating(t)>>]}
    ELSE LET d == CHOOSE e \in t.found : TRUE IN
         IF ~PushSaveAccepted(coll, t) THEN coll
         ELSE IF HasRating(d, t.species)
         THEN LET i == FirstRating(d.ratings, t.species)
                  rs == [d.ratings EXCEPT ![i] = ObjectAssign(@, PushUpdate(t))]
              IN  FindByIdAndUpdate(coll, d.id, [ratings |-> rs])
         ELSE {IF e.id = d.id
               THEN [e EXCEPT !.ratings = Append(@, PushRating(t))]
               ELSE e : e \in coll}

\* Saving a change of a document's ratings array increments its version:
\* every suspended push that loaded the document now holds a stale version.
MarkStale(calls, id) ==
    LET Mark(t) == IF \E d \in t.found : d.id = id
                   THEN [t EXCEPT !.stale = TRUE] ELSE t
        marked == {Mark(t) : t \in BagToSet(calls)}
    IN  [m \in marked |->
            LET src == {t \in BagToSet(calls) : Mark(t) = m}
                Sum[S \in SUBSET src] ==
                    IF S = {} THEN 0
                    ELSE LET x == CHOOSE y \in S : TRUE
                         IN  CopiesIn(x, calls) + Sum[S \ {x}]
            IN  Sum[src]]

\* The bag of the elements of a sequence of calls.
BagOfSeq(calls) ==
    [t \in Range(calls) |-> Cardinality({i \in DOMAIN calls : calls[i] = t})]

\* pushMany starting a push for the first entry only.
PushManyFirstOnly(arg) ==
    IF arg.array
    THEN BagOfSeq([i \in (DOMAIN arg.entries) \cap {1} |->
                    PushCall(arg.entries[i].name, arg.entries[i].species,
                             PushUpdate(arg.entries[i]))])
    ELSE BagOfSeq([i \in (DOMAIN arg.names) \cap {1} |->
                    PushCall(arg.names[i], arg.species, [f \in {} |-> << >>])])

\* Ingredient.pushMany (lines 316-329): one push call per entry, each started
\* and left suspended at its findOne; the promises are returned, not awaited.
\* arg is [array |-> TRUE, entries |-> <<{name, species, healthRating?, notes?}>>]
\* or [array |-> FALSE, names |-> <<name>>, species |-> species].
PushManyCalls(arg) ==
    IF arg.array
    THEN BagOfSeq([i \in DOMAIN arg.entries |->
                    PushCall(arg.entries[i].name, arg.entries[i].species,
                             PushUpdate(arg.entries[i]))])
    ELSE BagOfSeq([i \in DOMAIN arg.names |->
                    PushCall(arg.names[i], arg.species, [f \in {} |-> << >>])])

NamesArg(names, species) == [array |-> FALSE, names |-> names, species |-> species]

\* A suspended push runs its findOne.
PushFind ==
    \E t \in BagToSet(pushes) :
        /\ t.pc = "find"
        /\ \E snap \in FindOneByName(ingredients, t.name) :
              pushes' = (pushes (-) SetToBag({t}))
                        (+) SetToBag({[t EXCEPT !.pc = "save", !.found = snap]})
        /\ UNCHANGED <<products, ingredients, nextPid, nextIid, nextSid, adds, last>>

\* PushSaveStep with the failure of a save thrown to the caller of Product.add.
PushSaveStepPropagates ==
    \E t \in BagToSet(pushes) :
        /\ t.pc = "save"
        /\ t.found = {} => nextIid < MaxIngredients
        /\ ingredients' = PushSave(ingredients, t, IidNames[nextIid + 1])
        /\ nextIid' = IF t.found = {} THEN nextIid + 1 ELSE nextIid
        /\ pushes' = IF t.found # {} /\ PushSaveAccepted(ingredients, t)
                     THEN MarkStale(pushes (-) SetToBag({t}),
                                    (CHOOSE e \in t.found : TRUE).id)
                     ELSE pushes (-) SetToBag({t})
        /\ last' = IF PushSaveAccepted(ingredients, t) THEN last
                   ELSE [last EXCEPT !.state = "threw", !.err = "VersionError",
                                     !.result = {}]
        /\ UNCHANGED <<products, nextPid, nextSid, adds>>

\* A suspended push runs its save and settles.
PushSaveStep ==
    \E t \in BagToSet(pushes) :
        /\ t.pc = "save"
        /\ t.found = {} => nextIid < MaxIngredients
        /\ ingredients' = PushSave(ingredients, t, IidNames[nextIid + 1])
        /\ nextIid' = IF t.found = {} THEN nextIid + 1 ELSE nextIid
        /\ pushes' = IF t.found # {} /\ PushSaveAccepted(ingredients, t)
                     THEN MarkStale(pushes (-) SetToBag({t}),
                                    (CHOOSE e \in t.found : TRUE).id)
                     ELSE pushes (-) SetToBag({t})
        /\ UNCHANGED <<products, nextPid, nextSid, adds, last>>

----------------------------------------------------------------------------
(* The Product repository *)

\* The outcome of a call, as the caller sees it.
Pending(op, args) ==
    [op |-> op, args |-> args, state |-> "pending", err |-> "", result |-> {}]
Returned(op, args, result) ==
    [op |-> op, args |-> args, state |-> "returned", err |-> "", result |-> result]
Threw(op, args, message) ==
    [op |-> op, args |-> args, state |-> "threw", err |-> message, result |-> {}]

\* No call made by the caller is suspended: the next call can be made.
Idle == adds = {}

\* AddQuery with the foodType field left out of the query.
AddQueryNoFoodType(key) == [f \in KeyFields \ {"foodType"} |-> {key[f]}]

\* The query of Product.add's findOne (line 212).
AddQuery(key) == [f \in KeyFields |-> {key[f]}]

\* A size sub-document as the schema stores it (lines 23-36): it gets its own
\* _id, and the array paths links and imageUrls default to empty arrays.
SizeDoc(size, n) ==
    ObjectAssign([links |-> << >>, imageUrls |-> << >>],
                 ObjectAssign(size, [id |-> SidNames[n]]))

SizeDocs(sizes, n) == [i \in DOMAIN sizes |-> SizeDoc(sizes[i], n + i)]

\* new ProductModel({...}) (line 220).
NewProduct(key, ings, sizes, chart, pid, sid) ==
    ObjectAssign(key, [id |-> PidNames[pid], ingredients |-> ings,
                       sizes |-> SizeDocs(sizes, sid), feedingChart |-> chart])

AddArgs(key, ings) == ObjectAssign(key, [ingredients |-> ings])

\* Product.add up to its `await newProduct.save()`: the existence check, the
\* new document, and the pushMany call whose pushes nobody awaits.
ProductAddCall(key, ings, sizes, chart) ==
    IF \E p \in products : Matches(p, AddQuery(key))
    THEN /\ last' = Threw("Product.add", AddArgs(key, ings), "Product already exists")
         /\ UNCHANGED <<products, ingredients, nextPid, nextIid, nextSid, adds, pushes>>
    ELSE /\ nextPid < MaxProducts
         /\ nextSid + Len(sizes) <= MaxSizes
         /\ BagCardinality(pushes) + Len(ings) <= MaxPushes
         /\ adds' = adds \cup {NewProduct(key, ings, sizes, chart, nextPid + 1, nextSid)}
         /\ nextPid' = nextPid + 1
         /\ nextSid' = nextSid + Len(sizes)
         /\ pushes' = pushes (+) PushManyCalls(NamesArg(ings, key.species))
         /\ last' = Pending("Product.add", AddArgs(key, ings))
         /\ UNCHANGED <<products, ingredients, nextIid>>

\* The units a size may have (lines 28-32).
Units == {"lb", "can"}

\* The validation that save() runs against productSchema (lines 4-47):
\* species, lifeStage and foodType are required enums, and so is the unit of
\* every size.
ValidProduct(doc) ==
    /\ doc.species \in SpeciesSet
    /\ doc.lifeStage \in LifeStages
    /\ doc.foodType \in FoodTypes
    /\ \A i \in DOMAIN doc.sizes :
          "unit" \in DOMAIN doc.sizes[i] /\ doc.sizes[i].unit \in Units

\* `return await newProduct.save()` (line 228): the document is validated and
\* inserted and the call returns it, or the validation error is thrown.
ProductAddSave ==
    \E doc \in adds :
        /\ adds' = adds \ {doc}
        /\ IF ValidProduct(doc)
           THEN /\ products' = products \cup {doc}
                /\ last' = Returned("Product.add",
                                    AddArgs(Restrict(doc, KeyFields), doc.ingredients),
                                    {doc})
           ELSE /\ products' = products
                /\ last' = Threw("Product.add",
                                 AddArgs(Restrict(doc, KeyFields), doc.ingredients),
                                 "Product validation failed")
        /\ UNCHANGED <<ingredients, nextPid, nextIid, nextSid, pushes>>

\* The query object Product.find builds from its filters (lines 251-257).
FindQuery(filters) ==
    [f \in (DOMAIN filters) \ {"id"} |->
        IF f = "lifeStage" THEN {filters[f], "all"} ELSE {filters[f]}]

\* Product.find (lines 244-265): an id short-circuits; otherwise the query is
\* built and logged, and `ProductModel.find()` is called without it.
ProductFindResult(coll, filters) ==
    IF TruthyString(filters, "id") THEN FindById(coll, filters.id)
    ELSE LET query == FindQuery(filters) IN coll

ProductFind(filters) ==
    /\ last' = Returned("Product.find", filters, ProductFindResult(products, filters))
    /\ UNCHANGED <<products, ingredients, nextPid, nextIid, nextSid, adds, pushes>>

\* The update object Product.update builds (lines 307-320).
UpdateFields ==
    KeyFields \cup {"ingredients", "sizes", "feedingChart"}

\* The update object of Product.update without the foodType field.
ProductUpdateObjectNoFoodType(updates) == Restrict(updates, UpdateFields \ {"foodType"})

ProductUpdateObject(updates) == Restrict(updates, UpdateFields)

\* The arguments of an update call: the id and the updates object.
UpdateArgs(id, updates) == ObjectAssign(updates, [id |-> id])

\* Product.update (lines 295-329).  With ingredients supplied, the update
\* object takes the list and nothing else is done with it (lines 314-318).
ProductUpdate(id, updates) ==
    LET update == ProductUpdateObject(updates) IN
    /\ IF FindById(products, id) = {}
       THEN /\ last' = Threw("Product.update", UpdateArgs(id, updates), "Product not found")
            /\ UNCHANGED products
       ELSE IF DOMAIN update = {}
       THEN /\ last' = Threw("Product.update", UpdateArgs(id, updates), "No updates provided")
            /\ UNCHANGED products
       ELSE /\ products' = FindByIdAndUpdate(products, id, update)
            /\ last' = Returned("Product.update", UpdateArgs(id, updates), FindById(products', id))
    /\ UNCHANGED <<ingredients, nextPid, nextIid, nextSid, adds, pushes>>

\* Product.delete (lines 463-474).
ProductDelete(id) ==
    /\ IF FindById(products, id) = {}
       THEN /\ last' = Threw("Product.delete", [id |-> id], "Product not found")
            /\ UNCHANGED products
       ELSE /\ products' = FindByIdAndDelete(products, id)
            /\ last' = Returned("Product.delete", [id |-> id], FindById(products, id))
    /\ UNCHANGED <<ingredients, nextPid, nextIid, nextSid, adds, pushes>>

----------------------------------------------------------------------------
(* Specifications *)

Init ==
    /\ products = {}
    /\ ingredients = {}
    /\ nextPid = 0
    /\ nextIid = 0
    /\ nextSid = 0
    /\ adds = {}
    /\ pushes = NoCalls
    /\ last = Returned("none", [id |-> ""], {})

PidsInUse == {PidNames[i] : i \in 1..MaxProducts}

\* A base key and every key that differs from it in exactly one field.
BaseKey == [brand |-> "Acme", flavor |-> "beef", species |-> "cat",
            lifeStage |-> "adult", foodType |-> "dry"]

NearKeys == {k \in Keys : Cardinality({f \in KeyFields : k[f] # BaseKey[f]}) <= 1}

\* Update payloads over key fields, the empty payload among them.
KeyUpdates == PartialRecords([brand |-> Brands, lifeStage |-> {"all"},
                              foodType |-> {"wet"}])

\* Filters of GET /api/products (routes/apis/products.ts lines 8-18).
ProductFilters ==
    PartialRecords([id |-> {"", "p1"}, brand |-> {"Acme"}, flavor |-> {"beef"},
                    species |-> {"cat"}, lifeStage |-> {"adult", "all"},
                    foodType |-> {"dry"}])

\* The catalog: one caller making Product calls one after the other, each
\* product without ingredients.
CatalogAdd == \E key \in NearKeys : Idle /\ ProductAddCall(key, << >>, << >>, << >>)
CatalogUpdate ==
    \E id \in PidsInUse, updates \in KeyUpdates : Idle /\ ProductUpdate(id, updates)
CatalogDelete == \E id \in PidsInUse : Idle /\ ProductDelete(id)
CatalogFind == \E filters \in ProductFilters : Idle /\ ProductFind(filters)

CatalogNext ==
    \/ CatalogAdd
    \/ ProductAddSave
    \/ CatalogUpdate
    \/ CatalogDelete

SpecCatalog == Init /\ [][CatalogNext]_vars

\* The catalog queried: adds, deletes and finds.
QueryNext ==
    \/ CatalogAdd
    \/ ProductAddSave
    \/ CatalogDelete
    \/ CatalogFind

SpecQuery == Init /\ [][QueryNext]_vars

----------------------------------------------------------------------------
(* Claims about the product catalog *)

KeyOf(p) == Restrict(p, KeyFields)

\* C1: no two stored products share the same (brand, flavor, species,
\* lifeStage, foodType) tuple, after any sequence of Product.add,
\* Product.update and Product.delete.
C1_UniqueProductKeys ==
    \A p, q \in products : KeyOf(p) = KeyOf(q) => p = q

\* A step that is a call of Product.add, up to its throw or its suspension.
AddCalled ==
    /\ last' # last \/ adds' # adds
    /\ last'.op = "Product.add"
    /\ last'.state # "returned"

\* A step that is the return of a suspended Product.add.
AddReturned ==
    /\ adds' # adds
    /\ last'.op = "Product.add"
    /\ last'.state = "returned"

\* C5: Product.add throws 'Product already exists' and stores nothing when a
\* stored product has the same five key fields; when the new tuple differs
\* from every stored product in at least one field the call goes on to its
\* save, and its return has stored exactly one new product, of that tuple.
C5_AddStep ==
    /\ AddCalled =>
          IF \E p \in products : KeyOf(p) = Restrict(last'.args, KeyFields)
          THEN /\ last'.state = "threw"
               /\ last'.err = "Product already exists"
               /\ products' = products
               /\ adds' = adds
          ELSE /\ last'.state = "pending"
               /\ products' = products
               /\ \E doc \in adds' :
                     /\ adds' = adds \cup {doc}
                     /\ doc \notin adds
                     /\ KeyOf(doc) = Restrict(last'.args, KeyFields)
    /\ AddReturned =>
          \E doc \in last'.result :
              /\ last'.result = {doc}
              /\ doc \in adds
              /\ KeyOf(doc) = Restrict(last'.args, KeyFields)
              /\ \A p \in products : p.id # doc.id
              /\ products' = products \cup {doc}
              /\ Cardinality(products') = Cardinality(products) + 1

C5_AddFailsOnlyOnExistingKey == [][C5_AddStep]_vars

\* C5 witness: two products of distinct tuples are stored and a further add
\* of a stored tuple has just been refused.
C5_Witness ==
    /\ Cardinality(products) = 2
    /\ last.op = "Product.add"
    /\ last.err = "Product already exists"
    /\ \E p \in products : KeyOf(p) = Restrict(last.args, KeyFields)

\* C6: Product.find with only a lifeStage filter L returns exactly the stored
\* products whose lifeStage is L or 'all'.
C6_FindByLifeStage ==
    (last.op = "Product.find" /\ DOMAIN last.args = {"lifeStage"}) =>
        last.result = {p \in products : p.lifeStage \in {last.args.lifeStage, "all"}}

\* C7: Product.find with an id returns the single product of that id whatever
\* the other filters; without an id (and without a lifeStage filter) it
\* returns exactly the stored products equal to every supplied brand, flavor,
\* species and foodType value, hence all of them only when none is supplied.
C7_FindByExactFilters ==
    last.op = "Product.find" =>
        IF TruthyString(last.args, "id")
        THEN last.result = {p \in products : p.id = last.args.id}
        ELSE "lifeStage" \notin DOMAIN last.args =>
                last.result =
                    {p \in products :
                        \A f \in (DOMAIN last.args) \cap
                                 {"brand", "flavor", "species", "foodType"} :
                            p[f] = last.args[f]}

----------------------------------------------------------------------------
(* The Ingredient repository *)

\* Ingredient.add (lines 109-124).
IngredientAdd(name, ratings) ==
    /\ IF \E d \in ingredients : d.name = name
       THEN /\ last' = Threw("Ingredient.add", [name |-> name], "Ingredient already exists")
            /\ UNCHANGED <<ingredients, nextIid>>
       ELSE /\ nextIid < MaxIngredients
            /\ ingredients' = ingredients \cup
                  {[id |-> IidNames[nextIid + 1], name |-> name, ratings |-> ratings]}
            /\ nextIid' = nextIid + 1
            /\ last' = Returned("Ingredient.add", [name |-> name], {})
    /\ UNCHANGED <<products, nextPid, nextSid, adds, pushes>>

\* The case-insensitive match of `new RegExp(name, 'i')` (line 146): the
\* pattern, lower-cased, occurs in the lower-cased name.
Lower(str) ==
    CASE str = "Chicken" -> "chicken"
      [] str = "CHICKEN" -> "chicken"
      [] str = "Rice" -> "rice"
      [] OTHER -> str

Occurs(pattern, str) ==
    \/ pattern = str
    \/ pattern = ""
    \/ pattern = "ic" /\ str \in {"chicken", "rice"}

RegExpI(pattern, str) == Occurs(Lower(pattern), Lower(str))

\* The condition on 'ratings.healthRating' that Ingredient.find builds (lines
\* 148-157); each assignment to the key replaces the one before it.
RatingCondition(f) ==
    IF "rating" \in DOMAIN f
    THEN IF f.rating = << >> THEN [op |-> "eqnull", n |-> 0]
         ELSE [op |-> "eq", n |-> f.rating[1]]
    ELSE IF "maxRating" \in DOMAIN f THEN [op |-> "lte", n |-> f.maxRating]
    ELSE IF "minRating" \in DOMAIN f THEN [op |-> "gte", n |-> f.minRating]
    ELSE [op |-> "none", n |-> 0]

\* A condition on a dotted path into the ratings array holds when some
\* element of the array satisfies it, each condition on its own; an absent or
\* null healthRating satisfies {$eq: null}, and so does an empty array.
RatingHolds(doc, c) ==
    CASE c.op = "none" -> TRUE
      [] c.op = "eqnull" ->
            \/ doc.ratings = << >>
            \/ \E i \in DOMAIN doc.ratings : doc.ratings[i].healthRating = << >>
      [] OTHER ->
            \E i \in DOMAIN doc.ratings :
                /\ doc.ratings[i].healthRating # << >>
                /\ LET h == doc.ratings[i].healthRating[1] IN
                   CASE c.op = "eq" -> h = c.n
                     [] c.op = "lte" -> h <= c.n
                     [] c.op = "gte" -> h >= c.n

\* Ingredient.find (lines 139-161).
IngredientFindResult(coll, f) ==
    IF TruthyString(f, "id") THEN FindById(coll, f.id)
    ELSE {d \in coll :
            /\ "name" \in DOMAIN f => RegExpI(f.name, d.name)
            /\ "species" \in DOMAIN f => HasRating(d, f.species)
            /\ RatingHolds(d, RatingCondition(f))}

IngredientFind(f) ==
    /\ last' = Returned("Ingredient.find", f, IngredientFindResult(ingredients, f))
    /\ UNCHANGED <<products, ingredients, nextPid, nextIid, nextSid, adds, pushes>>

\* Ingredient.update testing for an empty update before looking up the id.
IngredientUpdateChecksUpdatesFirst(id, updates) ==
    LET update == Restrict(updates, {"name", "ratings"}) IN
    /\ IF DOMAIN update = {}
       THEN /\ last' = Threw("Ingredient.update", UpdateArgs(id, updates), "No updates provided")
            /\ UNCHANGED ingredients
       ELSE IF FindById(ingredients, id) = {}
       THEN /\ last' = Threw("Ingredient.update", UpdateArgs(id, updates), "Ingredient not found")
            /\ UNCHANGED ingredients
       ELSE /\ ingredients' = FindByIdAndUpdate(ingredients, id, update)
            /\ last' = Returned("Ingredient.update", UpdateArgs(id, updates),
                                FindById(ingredients', id))
    /\ UNCHANGED <<products, nextPid, nextIid, nextSid, adds, pushes>>

\* Ingredient.update (lines 225-249).
IngredientUpdate(id, updates) ==
    LET update == Restrict(updates, {"name", "ratings"}) IN
    /\ IF FindById(ingredients, id) = {}
       THEN /\ last' = Threw("Ingredient.update", UpdateArgs(id, updates), "Ingredient not found")
            /\ UNCHANGED ingredients
       ELSE IF DOMAIN update = {}
       THEN /\ last' = Threw("Ingredient.update", UpdateArgs(id, updates), "No updates provided")
            /\ UNCHANGED ingredients
       ELSE /\ ingredients' = FindByIdAndUpdate(ingredients, id, update)
            /\ last' = Returned("Ingredient.update", UpdateArgs(id, updates),
                                FindById(ingredients', id))
    /\ UNCHANGED <<products, nextPid, nextIid, nextSid, adds, pushes>>

\* Ingredient.push (lines 262-303) called and awaited: its findOne and its
\* save with no other store operation between them.
IngredientPush(name, species, given) ==
    \E snap \in FindOneByName(ingredients, name) :
        LET t == [PushCall(name, species, given) EXCEPT !.pc = "save", !.found = snap]
            id == IF snap = {} THEN IidNames[nextIid + 1]
                  ELSE (CHOOSE e \in snap : TRUE).id
        IN  /\ snap = {} => nextIid < MaxIngredients
            /\ ingredients' = PushSave(ingredients, t, id)
            /\ nextIid' = IF snap = {} THEN nextIid + 1 ELSE nextIid
            /\ pushes' = IF snap = {} THEN pushes ELSE MarkStale(pushes, id)
            /\ last' = Returned("Ingredient.push",
                                ObjectAssign([name |-> name, species |-> species], given),
                                FindById(ingredients', id))
            /\ UNCHANGED <<products, nextPid, nextSid, adds>>

\* Ingredient.pushMany (lines 316-329) as its caller sees it: it returns the
\* array of the promises of the pushes it started.
IngredientPushMany(arg) ==
    /\ BagCardinality(pushes) + BagCardinality(PushManyCalls(arg)) <= MaxPushes
    /\ pushes' = pushes (+) PushManyCalls(arg)
    /\ last' = Returned("Ingredient.pushMany", arg, {})
    /\ UNCHANGED <<products, ingredients, nextPid, nextIid, nextSid, adds>>

\* Ingredient.addRating without its check for a rating of the species.
IngredientAddRatingUnchecked(id, rating) ==
    /\ IF FindById(ingredients, id) = {}
       THEN /\ last' = Threw("Ingredient.addRating", UpdateArgs(id, rating), "Ingredient not found")
            /\ UNCHANGED <<ingredients, pushes>>
       ELSE /\ ingredients' =
                  {IF d.id = id
                   THEN [d EXCEPT !.ratings = Append(@, PushRating(rating))]
                   ELSE d : d \in ingredients}
            /\ pushes' = MarkStale(pushes, id)
            /\ last' = Returned("Ingredient.addRating", UpdateArgs(id, rating),
                                FindById(ingredients', id))
    /\ UNCHANGED <<products, nextPid, nextIid, nextSid, adds>>

\* Ingredient.addRating (lines 342-361).
IngredientAddRating(id, rating) ==
    /\ IF FindById(ingredients, id) = {}
       THEN /\ last' = Threw("Ingredient.addRating", UpdateArgs(id, rating), "Ingredient not found")
            /\ UNCHANGED <<ingredients, pushes>>
       ELSE IF HasRating(CHOOSE d \in FindById(ingredients, id) : TRUE, rating.species)
       THEN /\ last' = Threw("Ingredient.addRating", UpdateArgs(id, rating),
                             "Rating for species already exists")
            /\ UNCHANGED <<ingredients, pushes>>
       ELSE /\ ingredients' =
                  {IF d.id = id
                   THEN [d EXCEPT !.ratings = Append(@, PushRating(rating))]
                   ELSE d : d \in ingredients}
            /\ pushes' = MarkStale(pushes, id)
            /\ last' = Returned("Ingredient.addRating", UpdateArgs(id, rating),
                                FindById(ingredients', id))
    /\ UNCHANGED <<products, nextPid, nextIid, nextSid, adds>>

\* Ingredient.updateRating (lines 374-407).
IngredientUpdateRating(id, species, updates) ==
    LET update == Restrict(updates, {"healthRating", "notes"}) IN
    /\ IF FindById(ingredients, id) = {}
       THEN /\ last' = Threw("Ingredient.updateRating", [id |-> id], "Ingredient not found")
            /\ UNCHANGED ingredients
       ELSE IF ~HasRating(CHOOSE d \in FindById(ingredients, id) : TRUE, species)
       THEN /\ last' = Threw("Ingredient.updateRating", [id |-> id],
                             "Rating for species not found")
            /\ UNCHANGED ingredients
       ELSE IF DOMAIN update = {}
       THEN /\ last' = Threw("Ingredient.updateRating", [id |-> id], "No updates provided")
            /\ UNCHANGED ingredients
       ELSE /\ ingredients' =
                  {IF d.id = id
                   THEN [d EXCEPT !.ratings[FirstRating(d.ratings, species)] =
                                      ObjectAssign(@, update)]
                   ELSE d : d \in ingredients}
            /\ last' = Returned("Ingredient.updateRating", [id |-> id],
                                FindById(ingredients', id))
    /\ UNCHANGED <<products, nextPid, nextIid, nextSid, adds, pushes>>

\* ratings.splice(index, 1).
RemoveAt(seq, index) ==
    [i \in 1..(Len(seq) - 1) |-> IF i < index THEN seq[i] ELSE seq[i + 1]]

\* Ingredient.removeRating splicing at the index that findIndex gave and
\* saving before it tests the index: for a species without a rating the
\* index is -1 and splice(-1, 1) takes the last rating off.
IngredientRemoveRatingSplicesFirst(id, species) ==
    /\ IF FindById(ingredients, id) = {}
       THEN /\ last' = Threw("Ingredient.removeRating", [id |-> id], "Ingredient not found")
            /\ UNCHANGED <<ingredients, pushes>>
       ELSE LET found == CHOOSE d \in FindById(ingredients, id) : TRUE
                index == IF HasRating(found, species)
                         THEN FirstRating(found.ratings, species)
                         ELSE Len(found.ratings)
            IN  /\ ingredients' =
                      {IF d.id = id /\ d.ratings # << >>
                       THEN [d EXCEPT !.ratings = RemoveAt(@, index)]
                       ELSE d : d \in ingredients}
                /\ pushes' = MarkStale(pushes, id)
                /\ last' = IF HasRating(found, species)
                           THEN Returned("Ingredient.removeRating", [id |-> id],
                                         FindById(ingredients', id))
                           ELSE Threw("Ingredient.removeRating", [id |-> id],
                                      "Rating for species not found")
    /\ UNCHANGED <<products, nextPid, nextIid, nextSid, adds>>

\* Ingredient.removeRating (lines 409-429).
IngredientRemoveRating(id, species) ==
    /\ IF FindById(ingredients, id) = {}
       THEN /\ last' = Threw("Ingredient.removeRating", [id |-> id], "Ingredient not found")
            /\ UNCHANGED <<ingredients, pushes>>
       ELSE IF ~HasRating(CHOOSE d \in FindById(ingredients, id) : TRUE, species)
       THEN /\ last' = Threw("Ingredient.removeRating", [id |-> id],
                             "Rating for species not found")
            /\ UNCHANGED <<ingredients, pushes>>
       ELSE /\ ingredients' =
                  {IF d.id = id
                   THEN [d EXCEPT !.ratings =
                            RemoveAt(@, FirstRating(d.ratings, species))]
                   ELSE d : d \in ingredients}
            /\ pushes' = MarkStale(pushes, id)
            /\ last' = Returned("Ingredient.removeRating", [id |-> id],
                                FindById(ingredients', id))
    /\ UNCHANGED <<products, nextPid, nextIid, nextSid, adds>>

\* MergeRatings copying every rating of the duplicate, rated species or not.
MergeRatingsAppendAll(primary, duplicate) == primary \o duplicate

\* The forEach of lines 451-457: each rating of the duplicate, in order, is
\* pushed onto the primary's ratings unless they already hold its species.
RECURSIVE MergeRatings(_, _)
MergeRatings(primary, duplicate) ==
    IF duplicate = << >> THEN primary
    ELSE LET dr == Head(duplicate) IN
         IF \E i \in DOMAIN primary : primary[i].species = dr.species
         THEN MergeRatings(primary, Tail(duplicate))
         ELSE MergeRatings(Append(primary, dr), Tail(duplicate))

\* mergeDuplicates saving the primary and leaving the duplicate stored.
IngredientMergeKeepsDuplicate(primaryId, duplicateId) ==
    /\ IF FindById(ingredients, primaryId) = {} \/ FindById(ingredients, duplicateId) = {}
       THEN /\ last' = Threw("Ingredient.mergeDuplicates",
                             [primaryId |-> primaryId, duplicateId |-> duplicateId],
                             "One or both ingredients not found")
            /\ UNCHANGED <<ingredients, pushes>>
       ELSE LET primary == CHOOSE d \in FindById(ingredients, primaryId) : TRUE
                duplicate == CHOOSE d \in FindById(ingredients, duplicateId) : TRUE
                merged == [primary EXCEPT
                              !.ratings = MergeRatings(@, duplicate.ratings)]
            IN  /\ ingredients' =
                      {IF d.id = primaryId THEN merged ELSE d : d \in ingredients}
                /\ pushes' = IF merged = primary THEN pushes
                             ELSE MarkStale(pushes, primaryId)
                /\ last' = Returned("Ingredient.mergeDuplicates",
                                    [primaryId |-> primaryId, duplicateId |-> duplicateId],
                                    {merged})
    /\ UNCHANGED <<products, nextPid, nextIid, nextSid, adds>>

\* Ingredient.mergeDuplicates (lines 440-466): the primary is saved, then the
\* document of duplicateId is deleted, then the primary is returned.
IngredientMergeDuplicates(primaryId, duplicateId) ==
    /\ IF FindById(ingredients, primaryId) = {} \/ FindById(ingredients, duplicateId) = {}
       THEN /\ last' = Threw("Ingredient.mergeDuplicates",
                             [primaryId |-> primaryId, duplicateId |-> duplicateId],
                             "One or both ingredients not found")
            /\ UNCHANGED <<ingredients, pushes>>
       ELSE LET primary == CHOOSE d \in FindById(ingredients, primaryId) : TRUE
                duplicate == CHOOSE d \in FindById(ingredients, duplicateId) : TRUE
                merged == [primary EXCEPT
                              !.ratings = MergeRatings(@, duplicate.ratings)]
                saved == {IF d.id = primaryId THEN merged ELSE d : d \in ingredients}
            IN  /\ ingredients' = FindByIdAndDelete(saved, duplicateId)
                /\ pushes' = IF merged = primary THEN pushes
                             ELSE MarkStale(pushes, primaryId)
                /\ last' = Returned("Ingredient.mergeDuplicates",
                                    [primaryId |-> primaryId, duplicateId |-> duplicateId],
                                    {merged})
    /\ UNCHANGED <<products, nextPid, nextIid, nextSid, adds>>

\* Ingredient.delete also taking the deleted name off every product's list.
IngredientDeleteCascades(id) ==
    /\ IF FindById(ingredients, id) = {}
       THEN /\ last' = Threw("Ingredient.delete", [id |-> id], "Ingredient not found")
            /\ UNCHANGED <<ingredients, products>>
       ELSE LET gone == CHOOSE d \in FindById(ingredients, id) : TRUE IN
            /\ ingredients' = FindByIdAndDelete(ingredients, id)
            /\ products' =
                  {[p EXCEPT !.ingredients = SelectSeq(@, LAMBDA n : n # gone.name)] :
                      p \in products}
            /\ last' = Returned("Ingredient.delete", [id |-> id], {gone})
    /\ UNCHANGED <<nextPid, nextIid, nextSid, adds, pushes>>

\* Ingredient.delete (lines 474-484).
IngredientDelete(id) ==
    /\ IF FindById(ingredients, id) = {}
       THEN /\ last' = Threw("Ingredient.delete", [id |-> id], "Ingredient not found")
            /\ UNCHANGED ingredients
       ELSE /\ ingredients' = FindByIdAndDelete(ingredients, id)
            /\ last' = Returned("Ingredient.delete", [id |-> id], FindById(ingredients, id))
    /\ UNCHANGED <<products, nextPid, nextIid, nextSid, adds, pushes>>

----------------------------------------------------------------------------
(* Specifications of the Ingredient repository *)

IidsInUse == {IidNames[i] : i \in 1..MaxIngredients}

Rating(species, healthRating, notes) ==
    [species |-> species, healthRating |-> healthRating, notes |-> notes]

\* Ratings arrays passed to Ingredient.add and Ingredient.update.
RatingLists ==
    {<< >>,
     <<Rating("cat", << >>, << >>)>>,
     <<Rating("dog", <<5>>, <<"good">>)>>,
     <<Rating("cat", <<5>>, <<"good">>), Rating("cat", << >>, << >>)>>}

IngredientUpdates == PartialRecords([name |-> Names, ratings |-> RatingLists])

\* The optional healthRating and notes arguments of a push.
PushGivens == PartialRecords([healthRating |-> {<< >>, <<5>>}, notes |-> {<<"good">>}])

RatingUpdates == PartialRecords([healthRating |-> {<<5>>}, notes |-> {<< >>}])

\* Lists of ingredient names: one name, two names, the same name twice.
NameLists == {<<"Chicken">>, <<"Rice">>, <<"Chicken", "Rice">>, <<"Chicken", "Chicken">>}

\* The arguments of pushMany: a list of names with one species.
PushManyArgs ==
    {NamesArg(names, species) : names \in NameLists, species \in SpeciesSet}

\* One caller making awaited Ingredient.push calls one after the other.
PushNext ==
    \E name \in Names, species \in SpeciesSet, given \in PushGivens :
        IngredientPush(name, species, given)

SpecPush == Init /\ [][PushNext]_vars

\* One caller of pushMany and of find by species; the pushes that pushMany
\* started run on their own.
BatchPushMany == \E arg \in PushManyArgs : IngredientPushMany(arg)
BatchFind == \E species \in SpeciesSet : IngredientFind([species |-> species])

BatchNext ==
    \/ BatchPushMany
    \/ PushFind
    \/ PushSaveStep
    \/ BatchFind

SpecBatch == Init /\ [][BatchNext]_vars

\* One caller making Ingredient calls one after the other.
CurateAdd == \E name \in Names, ratings \in RatingLists : IngredientAdd(name, ratings)
CurateUpdate ==
    \E id \in IidsInUse, updates \in IngredientUpdates : IngredientUpdate(id, updates)
CuratePush ==
    \E name \in Names, species \in SpeciesSet : IngredientPush(name, species, [f \in {} |-> << >>])
CurateAddRating ==
    \E id \in IidsInUse, species \in SpeciesSet :
        IngredientAddRating(id, [species |-> species, healthRating |-> <<5>>])
CurateUpdateRating ==
    \E id \in IidsInUse, species \in SpeciesSet, updates \in RatingUpdates :
        IngredientUpdateRating(id, species, updates)
CurateRemoveRating ==
    \E id \in IidsInUse, species \in SpeciesSet : IngredientRemoveRating(id, species)
CurateMerge ==
    \E primaryId \in IidsInUse, duplicateId \in IidsInUse :
        IngredientMergeDuplicates(primaryId, duplicateId)
CurateDelete == \E id \in IidsInUse : IngredientDelete(id)

CurateNext ==
    \/ CurateAdd
    \/ CurateUpdate
    \/ CuratePush
    \/ CurateAddRating
    \/ CurateUpdateRating
    \/ CurateRemoveRating
    \/ CurateMerge
    \/ CurateDelete

SpecCurate == Init /\ [][CurateNext]_vars

----------------------------------------------------------------------------
(* Claims about the Ingredient repository *)

RatingsOf(doc, species) == {i \in DOMAIN doc.ratings : doc.ratings[i].species = species}

\* C2: every stored ingredient has at most one rating per species value,
\* after any sequence of Ingredient repository operations.
C2_OneRatingPerSpecies ==
    \A d \in ingredients : \A species \in SpeciesSet :
        Cardinality(RatingsOf(d, species)) <= 1

\* C3: no two stored ingredients have the same name, after any sequence of
\* Ingredient.add, update, push and pushMany.
C3_UniqueIngredientNames ==
    \A d, e \in ingredients : d.name = e.name => d = e

\* C8: every awaited push(name, species, ...) in a sequence of such calls
\* leaves exactly one ingredient of that name, holding exactly one rating for
\* that species; a healthRating and notes given with the call are the ones
\* that rating then holds; and when the ingredient already held a rating for
\* the species, the call adds neither an ingredient nor a rating.
C8_PushStep ==
    last'.op = "Ingredient.push" =>
        LET a == last'.args
            named == {d \in ingredients' : d.name = a.name}
        IN  /\ Cardinality(named) = 1
            /\ \A d \in named :
                  /\ Cardinality(RatingsOf(d, a.species)) = 1
                  /\ \A i \in RatingsOf(d, a.species) :
                        \A f \in (DOMAIN a) \cap {"healthRating", "notes"} :
                            d.ratings[i][f] = a[f]
                  /\ last'.result = {d}
            /\ (\E d \in ingredients : d.name = a.name /\ HasRating(d, a.species)) =>
                  /\ {d.id : d \in ingredients'} = {d.id : d \in ingredients}
                  /\ \A d \in ingredients, e \in ingredients' :
                        d.id = e.id => Len(e.ratings) = Len(d.ratings)

C8_PushIsIdempotentUpsert == [][C8_PushStep]_vars

\* C8 witness: after pushes without a rating, a push with (5, "good") has
\* set the single cat rating of the single ingredient of that name, which
\* also holds a dog rating.
C8_Witness ==
    /\ last.op = "Ingredient.push"
    /\ DOMAIN last.args = {"name", "species", "healthRating", "notes"}
    /\ \E d \in ingredients :
          /\ d.name = last.args.name
          /\ Len(d.ratings) = 2
          /\ \E i \in RatingsOf(d, last.args.species) :
                d.ratings[i].healthRating = <<5>> /\ d.ratings[i].notes = <<"good">>
          /\ \E i \in DOMAIN d.ratings :
                d.ratings[i].species # last.args.species /\ d.ratings[i].healthRating = << >>

\* A step that is a successful mergeDuplicates of two distinct ingredients.
MergeReturned ==
    /\ last'.op = "Ingredient.mergeDuplicates"
    /\ last'.state = "returned"
    /\ last'.args.primaryId # last'.args.duplicateId

\* C12: mergeDuplicates(primaryId, duplicateId) on two existing ingredients
\* leaves the primary with all of its previous ratings unchanged, followed by
\* one rating of the duplicate for each species rated on the duplicate and not
\* on the primary, and returns that updated primary.
C12_MergeStep ==
    MergeReturned =>
        \E primary \in FindById(ingredients, last'.args.primaryId),
           duplicate \in FindById(ingredients, last'.args.duplicateId),
           after \in FindById(ingredients', last'.args.primaryId) :
            LET kept == Len(primary.ratings)
                added == {i \in DOMAIN after.ratings : i > kept}
            IN  /\ Len(after.ratings) >= kept
                /\ SubSeq(after.ratings, 1, kept) = primary.ratings
                /\ after.name = primary.name
                /\ \A i \in added :
                      /\ after.ratings[i] \in Range(duplicate.ratings)
                      /\ ~HasRating(primary, after.ratings[i].species)
                      /\ \A j \in added :
                            after.ratings[j].species = after.ratings[i].species => j = i
                /\ \A species \in SpeciesSet :
                      (HasRating(duplicate, species) /\ ~HasRating(primary, species)) =>
                          \E i \in added : after.ratings[i].species = species
                /\ last'.result = {after}

C13_MergeStep ==
    /\ (last'.op = "Ingredient.mergeDuplicates" /\ last'.state = "returned") =>
          FindById(ingredients', last'.args.duplicateId) = {}
    /\ (/\ last'.op = "Ingredient.mergeDuplicates"
        /\ \/ FindById(ingredients, last'.args.duplicateId) = {}
           \/ /\ last.op = "Ingredient.mergeDuplicates"
              /\ last.state = "returned"
              /\ last'.args = last.args) =>
          /\ last'.state = "threw"
          /\ last'.err = "One or both ingredients not found"
          /\ ingredients' = ingredients

C13_MergedDuplicateIsGone == [][C13_MergeStep]_vars

\* C13 witness: A holds a dog and a cat rating, B's id no longer resolves
\* although both ids were handed out, and mergeDuplicates(A, B) has just
\* failed with the not-found error.
C13_Witness ==
    /\ last.op = "Ingredient.mergeDuplicates"
    /\ last.state = "threw"
    /\ last.err = "One or both ingredients not found"
    /\ last.args.primaryId # last.args.duplicateId
    /\ nextIid = 2
    /\ FindById(ingredients, last.args.duplicateId) = {}
    /\ \E d \in FindById(ingredients, last.args.primaryId) :
          Len(d.ratings) = 2 /\ HasRating(d, "dog") /\ HasRating(d, "cat")

\* A step in which the caller of pushMany({names, species}), having made no
\* other call since, calls find({species}).
FindFollowsPushMany ==
    /\ last.op = "Ingredient.pushMany"
    /\ ~last.args.array
    /\ last'.op = "Ingredient.find"
    /\ last'.args = [species |-> last.args.species]

FindReturnsEveryName ==
    \A i \in DOMAIN last.args.names :
        \E d \in last'.result : d.name = last.args.names[i]

\* C9 as claimed: once pushMany({names, species}) has returned to its caller,
\* a following find({species}) returns an ingredient for every name in names.
C9_FindAfterPushManyReturned ==
    [][FindFollowsPushMany => FindReturnsEveryName]_vars

\* C9 as amended: once every push that pushMany({names, species}) started has
\* settled, a following find({species}) returns an ingredient for every name.
C9_FindAfterPushesSettled ==
    [][(FindFollowsPushMany /\ pushes = NoCalls) => FindReturnsEveryName]_vars

\* C9 witness: pushMany over two names was the caller's latest call and all
\* its pushes have settled, each name now held by an ingredient.
C9_Witness ==
    /\ last.op = "Ingredient.pushMany"
    /\ ~last.args.array
    /\ Len(last.args.names) = 2
    /\ pushes = NoCalls
    /\ \A i \in DOMAIN last.args.names :
          \E d \in ingredients :
              d.name = last.args.names[i] /\ HasRating(d, last.args.species)
    /\ Cardinality({d.name : d \in ingredients}) = 2

----------------------------------------------------------------------------
(* Sizes of a product *)

\* The validation of Product.addSize (line 357): each of the four values is
\* tested for truthiness.
IncompleteSize(size) ==
    \/ ~TruthyString(size, "packaging")
    \/ ~TruthyNumber(size, "price")
    \/ ~TruthyNumber(size, "count")
    \/ ~TruthyString(size, "unit")

\* The object pushed onto product.sizes (line 362).
NewSize(size) ==
    ObjectAssign([links |-> << >>, imageUrls |-> << >>],
                 Restrict(size, {"packaging", "price", "count", "unit",
                                 "links", "imageUrls"}))

\* Product.addSize appending and saving the size before validating it.
ProductAddSizeAppendFirst(productId, size) ==
    /\ IF FindById(products, productId) = {}
       THEN /\ last' = Threw("Product.addSize", ObjectAssign(size, [productId |-> productId]),
                             "Product not found")
            /\ UNCHANGED <<products, nextSid>>
       ELSE /\ nextSid < MaxSizes
            /\ products' =
                  {IF p.id = productId
                   THEN [p EXCEPT !.sizes = Append(@, SizeDoc(NewSize(size), nextSid + 1))]
                   ELSE p : p \in products}
            /\ nextSid' = nextSid + 1
            /\ last' = IF IncompleteSize(size)
                       THEN Threw("Product.addSize",
                                  ObjectAssign(size, [productId |-> productId]),
                                  "Incomplete size details")
                       ELSE Returned("Product.addSize",
                                     ObjectAssign(size, [productId |-> productId]),
                                     FindById(products', productId))
    /\ UNCHANGED <<ingredients, nextPid, nextIid, adds, pushes>>

\* Product.addSize (lines 345-366).
ProductAddSize(productId, size) ==
    /\ IF FindById(products, productId) = {}
       THEN /\ last' = Threw("Product.addSize", ObjectAssign(size, [productId |-> productId]),
                             "Product not found")
            /\ UNCHANGED <<products, nextSid>>
       ELSE IF IncompleteSize(size)
       THEN /\ last' = Threw("Product.addSize", ObjectAssign(size, [productId |-> productId]),
                             "Incomplete size details")
            /\ UNCHANGED <<products, nextSid>>
       ELSE /\ nextSid < MaxSizes
            /\ products' =
                  {IF p.id = productId
                   THEN [p EXCEPT !.sizes = Append(@, SizeDoc(NewSize(size), nextSid + 1))]
                   ELSE p : p \in products}
            /\ nextSid' = nextSid + 1
            /\ last' = Returned("Product.addSize",
                                ObjectAssign(size, [productId |-> productId]),
                                FindById(products', productId))
    /\ UNCHANGED <<ingredients, nextPid, nextIid, adds, pushes>>

\* Size details: each field absent, falsy or given.
SizeDetails ==
    PartialRecords([packaging |-> {"", "bag"}, price |-> {0, 5}, count |-> {0, 1},
                    unit |-> {"lb"}, links |-> {<<"url">>}, imageUrls |-> {<<"img">>}])

\* One caller adding products without sizes and then sizes to them.
SizesAdd ==
    \E key \in {BaseKey} : Idle /\ ProductAddCall(key, << >>, << >>, << >>)
SizesAddSize ==
    \E id \in PidsInUse, size \in SizeDetails : Idle /\ ProductAddSize(id, size)

SizesNext ==
    \/ SizesAdd
    \/ ProductAddSave
    \/ SizesAddSize

SpecSizes == Init /\ [][SizesNext]_vars

\* C10: Product.addSize on an existing product throws 'Incomplete size
\* details' exactly when packaging, price, count or unit is missing from the
\* size details; in every other case it appends exactly one size, with links
\* and imageUrls defaulting to empty lists.
C10_AddSizeStep ==
    (/\ last'.op = "Product.addSize"
     /\ last' # last \/ products' # products
     /\ FindById(products, last'.args.productId) # {}) =>
        LET a == last'.args
            before == CHOOSE p \in FindById(products, a.productId) : TRUE
        IN  IF {"packaging", "price", "count", "unit"} \subseteq DOMAIN a
            THEN /\ last'.state = "returned"
                 /\ \E after \in FindById(products', a.productId) :
                       /\ Len(after.sizes) = Len(before.sizes) + 1
                       /\ SubSeq(after.sizes, 1, Len(before.sizes)) = before.sizes
                       /\ LET size == after.sizes[Len(after.sizes)] IN
                          /\ \A f \in {"packaging", "price", "count", "unit"} :
                                size[f] = a[f]
                          /\ size.links = IF "links" \in DOMAIN a THEN a.links ELSE << >>
                          /\ size.imageUrls =
                                IF "imageUrls" \in DOMAIN a THEN a.imageUrls ELSE << >>
            ELSE /\ last'.state = "threw"
                 /\ last'.err = "Incomplete size details"

C10_AddSizeIncompleteOnlyWhenMissing == [][C10_AddSizeStep]_vars

\* C11: when Product.addSize fails, with 'Product not found' or with
\* 'Incomplete size details', every stored product and its size list are
\* exactly what they were before the call.
C11_FailedAddSizeStep ==
    (last'.op = "Product.addSize" /\ last'.state = "threw") =>
        /\ last'.err \in {"Product not found", "Incomplete size details"}
        /\ products' = products
        /\ \A p \in products : \E q \in products' : q.id = p.id /\ q.sizes = p.sizes

C11_FailedAddSizeChangesNoSizes == [][C11_FailedAddSizeStep]_vars

\* C11 witness: an addSize without a price has just failed on a product that
\* holds one size.
C11_Witness ==
    /\ last.op = "Product.addSize"
    /\ last.state = "threw"
    /\ last.err = "Incomplete size details"
    /\ "price" \notin DOMAIN last.args
    /\ {"packaging", "count", "unit"} \subseteq DOMAIN last.args
    /\ \E p \in products : p.id = last.args.productId /\ Len(p.sizes) = 1

----------------------------------------------------------------------------
(* Updates of both repositories *)

\* An updates object with a field that neither update reads.
UnreadUpdates == {[color |-> "red"]}

\* Updates objects of Ingredient.update: a name, a ratings list, both, none.
NameOrRatingsUpdates ==
    PartialRecords([name |-> {"Rice"}, ratings |-> {<<Rating("cat", <<5>>, << >>)>>}])

\* One caller adding, updating and deleting products and ingredients, one
\* call after the other; the updates objects include the empty one.
UpdatesProductAdd ==
    \E key \in {BaseKey} : Idle /\ ProductAddCall(key, << >>, << >>, << >>)
UpdatesProductUpdate ==
    \E id \in PidsInUse, updates \in KeyUpdates \cup UnreadUpdates :
        Idle /\ ProductUpdate(id, updates)
UpdatesProductDelete == \E id \in PidsInUse : Idle /\ ProductDelete(id)
UpdatesIngredientAdd ==
    \E name \in Names : Idle /\ IngredientAdd(name, << >>)
UpdatesIngredientUpdate ==
    \E id \in IidsInUse, updates \in NameOrRatingsUpdates \cup UnreadUpdates :
        Idle /\ IngredientUpdate(id, updates)
UpdatesIngredientDelete == \E id \in IidsInUse : Idle /\ IngredientDelete(id)

UpdatesNext ==
    \/ UpdatesProductAdd
    \/ ProductAddSave
    \/ UpdatesProductUpdate
    \/ UpdatesProductDelete
    \/ UpdatesIngredientAdd
    \/ UpdatesIngredientUpdate
    \/ UpdatesIngredientDelete

SpecUpdates == Init /\ [][UpdatesNext]_vars

\* C14: Product.update and Ingredient.update called with an updates object
\* that sets none of the fields they read, the empty object first of all,
\* throw 'No updates provided' when the id resolves and the not-found error
\* when it does not, and leave every stored record unchanged.
C14_EmptyUpdateStep ==
    /\ (last'.op = "Product.update" /\ (DOMAIN last'.args) \cap UpdateFields = {}) =>
          /\ last'.state = "threw"
          /\ last'.err = IF FindById(products, last'.args.id) # {}
                         THEN "No updates provided" ELSE "Product not found"
          /\ products' = products
    /\ (last'.op = "Ingredient.update"
        /\ (DOMAIN last'.args) \cap {"name", "ratings"} = {}) =>
          /\ last'.state = "threw"
          /\ last'.err = IF FindById(ingredients, last'.args.id) # {}
                         THEN "No updates provided" ELSE "Ingredient not found"
          /\ ingredients' = ingredients

C14_EmptyUpdateIsRefused == [][C14_EmptyUpdateStep]_vars

\* C14 witness: Product.update(id, {}) has just been refused with 'No updates
\* provided' on a stored product, an ingredient being stored as well.
C14_Witness ==
    /\ last.op = "Product.update"
    /\ DOMAIN last.args = {"id"}
    /\ last.state = "threw"
    /\ last.err = "No updates provided"
    /\ FindById(products, last.args.id) # {}
    /\ ingredients # {}

----------------------------------------------------------------------------
(* POST /api/products *)

\* PostResponses of a handler without its .catch: a failure sends nothing.
PostResponsesNoCatch(outcome) ==
    IF outcome.state = "returned"
    THEN <<[status |-> 201, body |-> outcome.result]>>
    ELSE << >>

\* `.then(product => res.status(201).json(product))
\*  .catch(err => res.status(400).json({error: err.message}))`
\* (routes/apis/products.ts lines 30-32): the responses sent for an outcome of
\* the Product.add call, none while its promise is pending.
PostResponses(outcome) ==
    CASE outcome.state = "returned" -> <<[status |-> 201, body |-> outcome.result]>>
      [] outcome.state = "threw" ->
            <<[status |-> 400, body |-> {[error |-> outcome.err]}]>>
      [] OTHER -> << >>

\* Request bodies: the key fields with a lifeStage in or out of the enum, a
\* list of ingredient names, and sizes with or without their unit.
PostKeys == {BaseKey, [BaseKey EXCEPT !.lifeStage = "senior"],
             [BaseKey EXCEPT !.species = "dog"]}

PostSizes == {<< >>,
              <<[packaging |-> "bag", price |-> 5, count |-> 1, unit |-> "lb"]>>,
              <<[packaging |-> "bag", price |-> 5, count |-> 1]>>}

PostBodies ==
    {ObjectAssign(key, [ingredients |-> ings, sizes |-> sizes, feedingChart |-> << >>]) :
        key \in PostKeys, ings \in {<< >>, <<"Chicken">>}, sizes \in PostSizes}

\* The handler of POST /api/products (lines 27-33) up to the suspension of
\* the Product.add it calls; requests are handled as they come, also while
\* earlier ones are suspended.
PostProducts ==
    \E body \in PostBodies :
        ProductAddCall(Restrict(body, KeyFields), body.ingredients, body.sizes,
                       body.feedingChart)

PostNext ==
    \/ PostProducts
    \/ ProductAddSave
    \/ PushFind
    \/ PushSaveStep

SpecPost == Init /\ [][PostNext]_vars

\* A step that settles a Product.add call: it throws at its existence check,
\* or its suspended save returns or throws.
AddSettled ==
    /\ last'.op = "Product.add"
    /\ last'.state # "pending"
    /\ last' # last \/ adds' # adds

\* A step that suspends a Product.add call at its save.
AddSuspended ==
    /\ last'.op = "Product.add"
    /\ last'.state = "pending"
    /\ adds' # adds

\* C15: every POST /api/products request receives exactly one response, sent
\* when its Product.add settles and not before: status 201 with the created
\* product, now stored, when Product.add succeeds, and status 400 with
\* {error: message} when it fails, for an existing key or at its save.
C15_PostStep ==
    /\ AddSuspended => PostResponses(last') = << >>
    /\ AddSettled =>
          LET sent == PostResponses(last') IN
          /\ Len(sent) = 1
          /\ IF products' # products
             THEN /\ sent[1].status = 201
                  /\ sent[1].body = products' \ products
                  /\ Cardinality(sent[1].body) = 1
                  /\ \A p \in sent[1].body : KeyOf(p) = Restrict(last'.args, KeyFields)
             ELSE /\ sent[1].status = 400
                  /\ last'.err \in {"Product already exists", "Product validation failed"}
                  /\ sent[1].body = {[error |-> last'.err]}

C16_NoIngredientWithoutWrittenProduct ==
    adds = {} =>
        \A d \in ingredients :
            \E p \in products :
                /\ \E i \in DOMAIN p.ingredients : p.ingredients[i] = d.name
                /\ HasRating(d, p.species)

----------------------------------------------------------------------------
(* Products and the reconciliation of their ingredients *)

ReconKeys == {k \in NearKeys : k.brand = "Acme" /\ k.flavor = "beef"
                               /\ k.lifeStage = "adult" /\ k.foodType = "dry"}

\* Update payloads that change the ingredient list, the species, or both.
ReconUpdates == PartialRecords([ingredients |-> {<<"Rice">>}, species |-> {"dog"}])

\* One caller making Product calls one after the other; the pushes that
\* Product.add starts run on their own.
ReconAdd ==
    \E key \in ReconKeys, ings \in NameLists \cup {<< >>} :
        Idle /\ ProductAddCall(key, ings, << >>, << >>)
ReconUpdate ==
    \E id \in PidsInUse, updates \in ReconUpdates : Idle /\ ProductUpdate(id, updates)
ReconDelete == \E id \in PidsInUse : Idle /\ ProductDelete(id)

ReconNext ==
    \/ ReconAdd
    \/ ProductAddSave
    \/ PushFind
    \/ PushSaveStep
    \/ ReconUpdate
    \/ ReconDelete

SpecRecon == Init /\ [][ReconNext]_vars

\* C4: in every state where no reconciliation push is in flight, every
\* ingredient name listed in a stored product has an ingredient record of
\* that name.
C4_ListedIngredientsExist ==
    pushes = NoCalls =>
        \A p \in products : \A i \in DOMAIN p.ingredients :
            \E d \in ingredients : d.name = p.ingredients[i]

\* C17: Product.update with an ingredients list pushes each supplied name for
\* the species of the update, or else the stored species: once the update has
\* returned and no push is in flight, each supplied name has an ingredient
\* holding a rating for that species.
C17_UpdateReconcilesIngredients ==
    (/\ last.op = "Product.update"
     /\ last.state = "returned"
     /\ "ingredients" \in DOMAIN last.args
     /\ pushes = NoCalls) =>
        \A p \in last.result :
            \A i \in DOMAIN last.args.ingredients :
                \E d \in ingredients :
                    /\ d.name = last.args.ingredients[i]
                    /\ HasRating(d, p.species)

\* A step in which the save of a reconciliation push is refused by the store.
PushFails ==
    \E t \in BagToSet(pushes) :
        /\ t.pc = "save"
        /\ ~PushSaveAccepted(ingredients, t)
        /\ pushes' = pushes (-) SetToBag({t})

\* C18: the failure of a reconciliation push is never returned to the caller
\* of Product.add: it changes neither the outcome the caller sees nor the
\* suspended adds nor the products, and the save of every add that passes
\* validation stores the product and returns it, whatever its pushes did.
C18_ReconStep ==
    /\ PushFails => (last' = last /\ adds' = adds /\ products' = products)
    /\ adds' # adds /\ Cardinality(adds') < Cardinality(adds) =>
          \E doc \in adds :
              /\ adds' = adds \ {doc}
              /\ ValidProduct(doc) =>
                    /\ last' = Returned("Product.add",
                                        AddArgs(KeyOf(doc), doc.ingredients), {doc})
                    /\ products' = products \cup {doc}

----------------------------------------------------------------------------
(* Searching the Ingredient repository *)

\* Ratings arrays of the ingredients searched: none, unset, low, middle and
\* high ratings, and a number for one species beside an unset other.
SearchRatingLists ==
    {<< >>,
     <<Rating("cat", << >>, << >>)>>,
     <<Rating("cat", <<1>>, << >>)>>,
     <<Rating("cat", <<5>>, << >>)>>,
     <<Rating("dog", <<9>>, << >>)>>,
     <<Rating("cat", <<5>>, << >>), Rating("dog", << >>, << >>)>>}

\* Filters of Ingredient.find: a species, a rating (null or a number), and
\* the two bounds, each supplied or not.
SearchFilters ==
    PartialRecords([species |-> {"cat"}, rating |-> {<< >>, <<5>>},
                    minRating |-> {3}, maxRating |-> {7}])

\* One caller adding ingredients with their ratings and searching them.
SearchAdd ==
    \E name \in Names, ratings \in SearchRatingLists : IngredientAdd(name, ratings)
SearchFind == \E f \in SearchFilters : IngredientFind(f)

SearchNext ==
    \/ SearchAdd
    \/ SearchFind

SpecSearch == Init /\ [][SearchNext]_vars

\* Whether some rating of doc holds a number from min to max.
RatedWithin(doc, min, max) ==
    \E i \in DOMAIN doc.ratings :
        /\ doc.ratings[i].healthRating # << >>
        /\ doc.ratings[i].healthRating[1] >= min
        /\ doc.ratings[i].healthRating[1] <= max

\* C19: Ingredient.find with minRating and maxRating and no rating filter
\* returns exactly the ingredients (of the species filter, if any) that have
\* a rating from minRating to maxRating; with a rating filter supplied, the
\* result is the one the same filters give without minRating and maxRating.
C19_FindByRatingBounds ==
    last.op = "Ingredient.find" =>
        LET f == last.args IN
        /\ ("rating" \notin DOMAIN f /\ {"minRating", "maxRating"} \subseteq DOMAIN f) =>
              last.result =
                  {d \in ingredients :
                      /\ "species" \in DOMAIN f => HasRating(d, f.species)
                      /\ RatedWithin(d, f.minRating, f.maxRating)}
        /\ "rating" \in DOMAIN f =>
              last.result =
                  IngredientFindResult(ingredients,
                                       Restrict(f, (DOMAIN f) \ {"minRating", "maxRating"}))

\* C20: Ingredient.find with species S and rating null returns exactly the
\* ingredients whose rating for S has an unset healthRating; an ingredient
\* rated for S with a number and unset only for another species is not
\* among them.
C20_FindUnsetForSpecies ==
    (/\ last.op = "Ingredient.find"
     /\ {"species", "rating"} \subseteq DOMAIN last.args
     /\ last.args.rating = << >>) =>
        last.result =
            {d \in ingredients :
                \E i \in RatingsOf(d, last.args.species) :
                    d.ratings[i].healthRating = << >>}

\* C21: an awaited Ingredient.push on an ingredient that already holds a
\* rating for the species overwrites, in that rating, only the healthRating
\* and notes given with the call; a field not given keeps its value, the
\* ratings for other species keep theirs, and so does every other ingredient.
C21_PushStep ==
    last'.op = "Ingredient.push" =>
        \A d \in ingredients :
            (d.name = last'.args.name /\ HasRating(d, last'.args.species)) =>
                \E e \in ingredients' :
                    LET a == last'.args
                        i == FirstRating(d.ratings, a.species)
                    IN  /\ e.id = d.id
                        /\ e.name = d.name
                        /\ Len(e.ratings) = Len(d.ratings)
                        /\ \A j \in DOMAIN d.ratings : j # i => e.ratings[j] = d.ratings[j]
                        /\ e.ratings[i].species = a.species
                        /\ \A f \in {"healthRating", "notes"} :
                              e.ratings[i][f] =
                                  IF f \in DOMAIN a THEN a[f] ELSE d.ratings[i][f]
                        /\ ingredients' \ {e} = ingredients \ {d}

C21_PushOverwritesOnlyGivenFields == [][C21_PushStep]_vars

\* C21 witness: a push giving only a null healthRating has just run on an
\* ingredient whose rating for the species holds that null beside the notes
\* of an earlier push, another ingredient and another species being stored.
C21_Witness ==
    /\ last.op = "Ingredient.push"
    /\ DOMAIN last.args = {"name", "species", "healthRating"}
    /\ last.args.healthRating = << >>
    /\ Cardinality(ingredients) = 2
    /\ \E d \in ingredients :
          /\ d.name = last.args.name
          /\ Len(d.ratings) = 2
          /\ \E i \in RatingsOf(d, last.args.species) :
                d.ratings[i].healthRating = << >> /\ d.ratings[i].notes = <<"good">>

\* C22: Ingredient.addRating throws not-found when the id does not resolve,
\* throws the rating-already-exists error and leaves the ratings unchanged
\* when the ingredient holds a rating for the species, and otherwise appends
\* exactly one rating, of that species, to that ingredient.
C22_AddRatingStep ==
    last'.op = "Ingredient.addRating" =>
        LET a == last'.args IN
        IF FindById(ingredients, a.id) = {}
        THEN /\ last'.state = "threw"
             /\ last'.err = "Ingredient not found"
             /\ ingredients' = ingredients
        ELSE \A d \in FindById(ingredients, a.id) :
                IF RatingsOf(d, a.species) # {}
                THEN /\ last'.state = "threw"
                     /\ last'.err = "Rating for species already exists"
                     /\ ingredients' = ingredients
                ELSE /\ last'.state = "returned"
                     /\ \E e \in ingredients' :
                           /\ e.id = d.id /\ e.name = d.name
                           /\ Len(e.ratings) = Len(d.ratings) + 1
                           /\ SubSeq(e.ratings, 1, Len(d.ratings)) = d.ratings
                           /\ e.ratings[Len(e.ratings)].species = a.species
                           /\ e.ratings[Len(e.ratings)].healthRating = OrNull(a, "healthRating")
                           /\ ingredients' \ {e} = ingredients \ {d}
                           /\ last'.result = {e}

C22_AddRatingAppendsOrRefuses == [][C22_AddRatingStep]_vars

\* C22 witness: addRating has just been refused on an ingredient that holds
\* a rating for the species, beside a rating for the other species.
C22_Witness ==
    /\ last.op = "Ingredient.addRating"
    /\ last.state = "threw"
    /\ last.err = "Rating for species already exists"
    /\ \E d \in FindById(ingredients, last.args.id) :
          /\ Len(d.ratings) = 2
          /\ Cardinality(RatingsOf(d, last.args.species)) = 1

----------------------------------------------------------------------------
(* Products beside the curation of their ingredients *)

\* One caller adding products with their ingredient lists, whose pushes run on
\* their own, and a curator deleting, merging and renaming ingredients.
WeakAdd ==
    \E ings \in {<<"Chicken">>, <<"Chicken", "Rice">>} :
        Idle /\ ProductAddCall(BaseKey, ings, << >>, << >>)
WeakDelete == \E id \in IidsInUse : IngredientDelete(id)
WeakMerge ==
    \E primaryId \in IidsInUse, duplicateId \in IidsInUse :
        IngredientMergeDuplicates(primaryId, duplicateId)
WeakRename ==
    \E id \in IidsInUse, name \in Names : IngredientUpdate(id, [name |-> name])

WeakNext ==
    \/ WeakAdd
    \/ ProductAddSave
    \/ PushFind
    \/ PushSaveStep
    \/ WeakDelete
    \/ WeakMerge
    \/ WeakRename

SpecWeak == Init /\ [][WeakNext]_vars

IngredientOps ==
    {"Ingredient.add", "Ingredient.update", "Ingredient.push", "Ingredient.pushMany",
     "Ingredient.addRating", "Ingredient.updateRating", "Ingredient.removeRating",
     "Ingredient.mergeDuplicates", "Ingredient.delete", "Ingredient.find"}

\* C23: no Ingredient repository operation modifies a product: a step that
\* is a call of one, or that changes the stored ingredients, as a delete or
\* a merge does, leaves every stored product, its list of ingredient names
\* included, exactly as it was.
C23_IngredientStep ==
    (last'.op \in IngredientOps \/ ingredients' # ingredients) => products' = products

C23_IngredientOpsLeaveProducts == [][C23_IngredientStep]_vars

\* C23 witness: an ingredient has just been deleted and a stored product
\* still lists its name, which no stored ingredient holds any more.
C23_Witness ==
    /\ last.op = "Ingredient.delete"
    /\ last.state = "returned"
    /\ \E gone \in last.result : \E p \in products :
          /\ \E i \in DOMAIN p.ingredients : p.ingredients[i] = gone.name
          /\ \A d \in ingredients : d.name # gone.name

----------------------------------------------------------------------------
(* Editing the sizes of a product *)

SizeFields == {"packaging", "price", "count", "unit", "links", "imageUrls"}

\* The arguments of a call on one size of one product.
SizeArgs(productId, sizeId, updates) ==
    ObjectAssign(updates, [productId |-> productId, sizeId |-> sizeId])

\* product.sizes.id(sizeId): the indexes of the sizes of that _id.
SizeById(product, sizeId) == {i \in DOMAIN product.sizes : product.sizes[i].id = sizeId}

\* Product.updateSize replacing the size by the update object.
ProductUpdateSizeReplaces(productId, sizeId, updates) ==
    LET update == Restrict(updates, SizeFields)
        args == SizeArgs(productId, sizeId, updates)
    IN
    /\ IF FindById(products, productId) = {}
       THEN /\ last' = Threw("Product.updateSize", args, "Product not found")
            /\ UNCHANGED products
       ELSE LET product == CHOOSE p \in FindById(products, productId) : TRUE IN
            IF SizeById(product, sizeId) = {}
            THEN /\ last' = Threw("Product.updateSize", args, "Size not found")
                 /\ UNCHANGED products
            ELSE IF DOMAIN update = {}
            THEN /\ last' = Threw("Product.updateSize", args, "No updates provided")
                 /\ UNCHANGED products
            ELSE LET i == CHOOSE j \in SizeById(product, sizeId) : TRUE
                     saved == [product EXCEPT
                                  !.sizes[i] = ObjectAssign(update, [id |-> sizeId])]
                 IN  /\ products' = {IF p.id = productId THEN saved ELSE p : p \in products}
                     /\ last' = Returned("Product.updateSize", args, {saved})
    /\ UNCHANGED <<ingredients, nextPid, nextIid, nextSid, adds, pushes>>

\* Product.updateSize (lines 383-422).
ProductUpdateSize(productId, sizeId, updates) ==
    LET update == Restrict(updates, SizeFields)
        args == SizeArgs(productId, sizeId, updates)
    IN
    /\ IF FindById(products, productId) = {}
       THEN /\ last' = Threw("Product.updateSize", args, "Product not found")
            /\ UNCHANGED products
       ELSE LET product == CHOOSE p \in FindById(products, productId) : TRUE IN
            IF SizeById(product, sizeId) = {}
            THEN /\ last' = Threw("Product.updateSize", args, "Size not found")
                 /\ UNCHANGED products
            ELSE IF DOMAIN update = {}
            THEN /\ last' = Threw("Product.updateSize", args, "No updates provided")
                 /\ UNCHANGED products
            ELSE LET i == CHOOSE j \in SizeById(product, sizeId) :
                              \A k \in SizeById(product, sizeId) : j <= k
                     saved == [product EXCEPT !.sizes[i] = ObjectAssign(@, update)]
                 IN  /\ products' = {IF p.id = productId THEN saved ELSE p : p \in products}
                     /\ last' = Returned("Product.updateSize", args, {saved})
    /\ UNCHANGED <<ingredients, nextPid, nextIid, nextSid, adds, pushes>>

\* Product.removeSize (lines 432-454).
ProductRemoveSize(productId, sizeId) ==
    LET args == [productId |-> productId, sizeId |-> sizeId] IN
    /\ IF FindById(products, productId) = {}
       THEN /\ last' = Threw("Product.removeSize", args, "Product not found")
            /\ UNCHANGED products
       ELSE LET product == CHOOSE p \in FindById(products, productId) : TRUE IN
            IF SizeById(product, sizeId) = {}
            THEN /\ last' = Threw("Product.removeSize", args, "Size not found")
                 /\ UNCHANGED products
            ELSE LET i == CHOOSE j \in SizeById(product, sizeId) :
                              \A k \in SizeById(product, sizeId) : j <= k
                     saved == [product EXCEPT !.sizes = RemoveAt(@, i)]
                 IN  /\ products' = {IF p.id = productId THEN saved ELSE p : p \in products}
                     /\ last' = Returned("Product.removeSize", args, {saved})
    /\ UNCHANGED <<ingredients, nextPid, nextIid, nextSid, adds, pushes>>

SidsInUse == {SidNames[i] : i \in 1..MaxSizes}

\* Complete size details, and updates of a size: some of price, unit and
\* links, none of them, or a field that updateSize does not read.
CompleteSizes ==
    {[packaging |-> "bag", price |-> 5, count |-> 1, unit |-> "lb"],
     [packaging |-> "case", price |-> 9, count |-> 6, unit |-> "can", links |-> <<"url">>]}

SizeUpdates ==
    PartialRecords([price |-> {0}, unit |-> {"can"}, links |-> {<< >>}])
        \cup UnreadUpdates

\* One caller adding two products and adding, updating and removing sizes.
EditsAdd == \E key \in ReconKeys : Idle /\ ProductAddCall(key, << >>, << >>, << >>)
EditsAddSize ==
    \E id \in PidsInUse, size \in CompleteSizes : Idle /\ ProductAddSize(id, size)
EditsUpdateSize ==
    \E id \in PidsInUse, sizeId \in SidsInUse, updates \in SizeUpdates :
        Idle /\ ProductUpdateSize(id, sizeId, updates)
EditsRemoveSize ==
    \E id \in PidsInUse, sizeId \in SidsInUse : Idle /\ ProductRemoveSize(id, sizeId)

EditsNext ==
    \/ EditsAdd
    \/ ProductAddSave
    \/ EditsAddSize
    \/ EditsUpdateSize
    \/ EditsRemoveSize

SpecEdits == Init /\ [][EditsNext]_vars

\* C24: Product.updateSize checks product-not-found, then size-not-found,
\* then no-updates-provided, and on each leaves the products unchanged;
\* otherwise it changes only the supplied fields of the size of that id and
\* leaves that size's other fields, every other size, every other field of
\* the product and every other product unchanged.
C24_UpdateSizeStep ==
    last'.op = "Product.updateSize" =>
        LET a == last'.args
            given == (DOMAIN a) \cap SizeFields
        IN
        IF FindById(products, a.productId) = {}
        THEN last'.state = "threw" /\ last'.err = "Product not found"
             /\ products' = products
        ELSE \A p \in FindById(products, a.productId) :
            IF \A i \in DOMAIN p.sizes : p.sizes[i].id # a.sizeId
            THEN last'.state = "threw" /\ last'.err = "Size not found"
                 /\ products' = products
            ELSE IF given = {}
            THEN last'.state = "threw" /\ last'.err = "No updates provided"
                 /\ products' = products
            ELSE /\ last'.state = "returned"
                 /\ \E q \in products' :
                       /\ q.id = p.id
                       /\ products' \ {q} = products \ {p}
                       /\ last'.result = {q}
                       /\ DOMAIN q = DOMAIN p
                       /\ \A f \in (DOMAIN p) \ {"sizes"} : q[f] = p[f]
                       /\ Len(q.sizes) = Len(p.sizes)
                       /\ \A i \in DOMAIN p.sizes :
                             IF p.sizes[i].id # a.sizeId THEN q.sizes[i] = p.sizes[i]
                             ELSE /\ DOMAIN q.sizes[i] = DOMAIN p.sizes[i]
                                  /\ \A f \in DOMAIN p.sizes[i] :
                                        q.sizes[i][f] =
                                            IF f \in given THEN a[f] ELSE p.sizes[i][f]

C24_UpdateSizeChangesOnlyGiven == [][C24_UpdateSizeStep]_vars

\* C24 witness: updateSize has just set the price of one of the two sizes of
\* a product to 0, the other size and the other product being stored too.
C24_Witness ==
    /\ last.op = "Product.updateSize"
    /\ last.state = "returned"
    /\ DOMAIN last.args = {"productId", "sizeId", "price"}
    /\ Cardinality(products) = 2
    /\ \E p \in last.result :
          /\ p \in products
          /\ Len(p.sizes) = 2
          /\ \E i \in DOMAIN p.sizes :
                /\ p.sizes[i].id = last.args.sizeId
                /\ p.sizes[i].price = 0
                /\ p.sizes[i].packaging = "case"

\* C25: a successful Product.update changes exactly the fields present in
\* the updates payload, to the supplied values, and leaves every other field
\* of that product, and every other product, unchanged.
C25_UpdateStep ==
    (last'.op = "Product.update" /\ last'.state = "returned") =>
        LET a == last'.args
            given == (DOMAIN a) \ {"id"}
        IN  \E p \in FindById(products, a.id), q \in products' :
                /\ q.id = p.id
                /\ DOMAIN q = DOMAIN p
                /\ \A f \in DOMAIN p : q[f] = IF f \in given THEN a[f] ELSE p[f]
                /\ products' \ {q} = products \ {p}
                /\ last'.result = {q}

C25_UpdateChangesOnlyGiven == [][C25_UpdateStep]_vars

\* C25 witness: an update of brand and foodType has just returned the stored
\* product with both set and its lifeStage as added, beside another product.
C25_Witness ==
    /\ last.op = "Product.update"
    /\ last.state = "returned"
    /\ DOMAIN last.args = {"id", "brand", "foodType"}
    /\ Cardinality(products) = 2
    /\ \E q \in last.result :
          /\ q \in products
          /\ q.brand = last.args.brand /\ q.foodType = "wet"
          /\ q.lifeStage = "young"

\* C26: when two Product.add calls with the same five-field key interleave at
\* their store awaits, at most one of them persists a product: the save of an
\* add whose key a stored product already has stores nothing, and the call
\* fails with 'Product already exists'.
C26_ConcurrentAddStep ==
    \A doc \in adds :
        (/\ adds' = adds \ {doc}
         /\ ValidProduct(doc)
         /\ \E p \in products : KeyOf(p) = KeyOf(doc)) =>
            /\ products' = products
            /\ last'.state = "threw"
            /\ last'.err = "Product already exists"

C26_OneOfTwoConcurrentAddsPersists == [][C26_ConcurrentAddStep]_vars

\* C27: the pushes that one pushMany call started run concurrently, and once
\* all of them have completed exactly one ingredient exists for each name of
\* the list, also for a new name that the list holds twice.
C27_OneIngredientPerPushedName ==
    (/\ last.op = "Ingredient.pushMany"
     /\ ~last.args.array
     /\ pushes = NoCalls) =>
        \A i \in DOMAIN last.args.names :
            Cardinality({d \in ingredients : d.name = last.args.names[i]}) = 1

----------------------------------------------------------------------------
(* Reconciliation beside the curation of ratings *)

\* A curator adding rated ingredients and updating their ratings, and a
\* caller adding products whose reconciliation pushes run on their own.
StaleSeed ==
    \E ratings \in {<<Rating("cat", <<1>>, <<"poor">>)>>} :
        IngredientAdd("Chicken", ratings)
StaleAdd ==
    \E key \in ReconKeys : Idle /\ ProductAddCall(key, <<"Chicken">>, << >>, << >>)
StaleUpdateRating ==
    \E id \in IidsInUse, species \in SpeciesSet, updates \in RatingUpdates :
        IngredientUpdateRating(id, species, updates)

StaleNext ==
    \/ StaleSeed
    \/ StaleAdd
    \/ ProductAddSave
    \/ PushFind
    \/ PushSaveStep
    \/ StaleUpdateRating

SpecStale == Init /\ [][StaleNext]_vars

\* C28: reconciliation started by Product.add never changes an existing
\* rating: when one of its pushes settles, every rating that an ingredient
\* held before holds the same species, healthRating and notes after.
C28_ReconPushStep ==
    BagCardinality(pushes') < BagCardinality(pushes) =>
        \A d \in ingredients :
            \E e \in ingredients' :
                /\ e.id = d.id
                /\ \A i \in DOMAIN d.ratings :
                      i \in DOMAIN e.ratings /\ e.ratings[i] = d.ratings[i]

C28_ReconKeepsExistingRatings == [][C28_ReconPushStep]_vars

\* C29: whenever Ingredient.mergeDuplicates has returned, the primary
\* ingredient that it returned is stored and findById(primaryId) resolves to
\* it, also when primaryId and duplicateId are the same id.
C29_MergedPrimaryStillStored ==
    (/\ last.op = "Ingredient.mergeDuplicates"
     /\ last.state = "returned") =>
        /\ FindById(ingredients, last.args.primaryId) # {}
        /\ last.result \subseteq ingredients

----------------------------------------------------------------------------
(* Failing calls of both repositories *)

\* The arguments of one caller that uses every operation of both
\* repositories, with stored and unknown ids, complete and incomplete sizes,
\* and updates that hold a field or none.
FailSizes ==
    {[packaging |-> "bag", price |-> 5, count |-> 1, unit |-> "lb"],
     [packaging |-> "bag", price |-> 0, count |-> 1, unit |-> "lb"]}

FailProductAdd ==
    \E key \in {k \in ReconKeys : k.species = "cat"} :
        Idle /\ ProductAddCall(key, << >>, << >>, << >>)
FailProductUpdate ==
    \E id \in PidsInUse, updates \in PartialRecords([lifeStage |-> {"all"}]) :
        Idle /\ ProductUpdate(id, updates)
FailProductDelete == \E id \in PidsInUse : Idle /\ ProductDelete(id)
FailAddSize ==
    \E id \in PidsInUse, size \in FailSizes : Idle /\ ProductAddSize(id, size)
FailUpdateSize ==
    \E id \in PidsInUse, sizeId \in SidsInUse,
       updates \in PartialRecords([price |-> {5}]) :
        Idle /\ ProductUpdateSize(id, sizeId, updates)
FailRemoveSize ==
    \E id \in PidsInUse, sizeId \in SidsInUse : Idle /\ ProductRemoveSize(id, sizeId)
FailIngredientAdd ==
    \E name \in Names : Idle /\ IngredientAdd(name, << >>)
FailIngredientUpdate ==
    \E id \in IidsInUse, updates \in PartialRecords([ratings |-> {<< >>}]) :
        Idle /\ IngredientUpdate(id, updates)
FailAddRating ==
    \E id \in IidsInUse :
        Idle /\ IngredientAddRating(id, Rating("cat", << >>, << >>))
FailUpdateRating ==
    \E id \in IidsInUse, updates \in PartialRecords([healthRating |-> {<<5>>}]) :
        Idle /\ IngredientUpdateRating(id, "cat", updates)
FailRemoveRating ==
    \E id \in IidsInUse, species \in SpeciesSet :
        Idle /\ IngredientRemoveRating(id, species)
FailMerge ==
    \E primaryId \in IidsInUse, duplicateId \in IidsInUse :
        Idle /\ IngredientMergeDuplicates(primaryId, duplicateId)
FailIngredientDelete == \E id \in IidsInUse : Idle /\ IngredientDelete(id)

FailNext ==
    \/ FailProductAdd
    \/ ProductAddSave
    \/ FailProductUpdate
    \/ FailProductDelete
    \/ FailAddSize
    \/ FailUpdateSize
    \/ FailRemoveSize
    \/ FailIngredientAdd
    \/ FailIngredientUpdate
    \/ FailAddRating
    \/ FailUpdateRating
    \/ FailRemoveRating
    \/ FailMerge
    \/ FailIngredientDelete

SpecFail == Init /\ [][FailNext]_vars

\* The messages of the errors that the repository operations throw themselves.
TaxonomyErrors ==
    {"Product already exists", "Ingredient already exists",
     "Product not found", "Ingredient not found", "One or both ingredients not found",
     "No updates provided", "Incomplete size details",
     "Rating for species already exists", "Rating for species not found",
     "Size not found"}

\* C30: a call of a Product or Ingredient repository operation that fails
\* with an already-exists, not-found, no-updates-provided,
\* incomplete-size-details, rating-already-exists, rating-not-found or
\* size-not-found error leaves the stored products and the stored
\* ingredients exactly as they were before the call.
C30_FailedCallStep ==
    (/\ last'.state = "threw"
     /\ last'.err \in TaxonomyErrors) =>
        /\ products' = products
        /\ ingredients' = ingredients

C30_FailedCallsLeaveRepositories == [][C30_FailedCallStep]_vars

\* C30 witness: removeRating has failed for an ingredient that holds ratings
\* but none for the species, while a product with a size is stored.
C30_Witness ==
    /\ last.op = "Ingredient.removeRating"
    /\ last.state = "threw"
    /\ last.err = "Rating for species not found"
    /\ \E d \in ingredients : d.id = last.args.id /\ d.ratings # << >>
    /\ \E p \in products : p.sizes # << >>

====
